---- MODULE Spec2Model ----
(***************************************************************************)
(* cctkpkg/sequence_operations.py: rev_comp, hamming and needle            *)
(* (Needleman-Wunsch global alignment), as state machines.                 *)
(*                                                                         *)
(* A Python sequence argument is a record [type, items]: its run-time type *)
(* name and its symbols.  A scoring argument is a record [type, nan, v]:   *)
(* its run-time type name and its value, an integer or the float NaN.      *)
(* The score matrix is a float64 array; its cells are records [nan, v].    *)
(***************************************************************************)
EXTENDS Integers, Sequences, FiniteSets, TLC

VARIABLES
    pc,         \* position in the function being run
    seq1, seq2, \* needle's sequence arguments
    match, mismatch, gap,   \* needle's scoring arguments
    grid,       \* needle's score matrix, <<>> before np.zeros
    i, j,       \* needle's backtrace position: row (seq2), column (seq1)
    align1, align2,         \* needle's alignments, built from the end
    result,     \* what the function returned, <<>> before it returns
    string1, string2,       \* hamming's arguments
    dist, distplus1, distminus1,    \* hamming's counters
    string,     \* rev_comp's argument
    rev_str,    \* rev_comp's accumulator
    k           \* rev_comp's loop: symbols of string already consumed

vars == <<pc, seq1, seq2, match, mismatch, gap, grid, i, j, align1, align2,
          result, string1, string2, dist, distplus1, distminus1,
          string, rev_str, k>>

needleVars == <<seq1, seq2, match, mismatch, gap, grid, i, j, align1, align2>>
hammingVars == <<string1, string2, dist, distplus1, distminus1>>
revVars == <<string, rev_str, k>>

----------------------------------------------------------------------------
(* Bounds of the model *)

\* longest str argument of needle
MaxLen == 2
\* longest list or tuple argument of needle
MaxTok == 1
\* longest argument of hamming
MaxHam == 3
\* longest argument of rev_comp
MaxRev == 2

(* Default scoring of needle *)
DefaultMatch == 100
DefaultMismatch == -1
DefaultGap == -2

----------------------------------------------------------------------------
(* Values *)

\* all sequences over S of length at most n
SeqsUpTo(S, n) == UNION {[1..m -> S] : m \in 0..n}

Reverse(s) == [x \in 1..Len(s) |-> s[Len(s) + 1 - x]]

Min(a, b) == IF a < b THEN a ELSE b
Max(a, b) == IF a > b THEN a ELSE b

\* float64 values: the integers (exact) and NaN
Num(n) == [nan |-> FALSE, v |-> n]
NaN == [nan |-> TRUE, v |-> 0]

\* IEEE-754 addition, multiplication and comparison
Add(x, y) == IF x.nan \/ y.nan THEN NaN ELSE Num(x.v + y.v)
Mul(x, n) == IF x.nan THEN NaN ELSE Num(x.v * n)
Eq(x, y) == ~x.nan /\ ~y.nan /\ x.v = y.v
Gt(x, y) == ~x.nan /\ ~y.nan /\ x.v > y.v

\* Python's max(list): the first item, replaced by each later item that
\* compares greater
RECURSIVE PyMaxFrom(_, _, _)
PyMaxFrom(m, lst, n) ==
    IF n > Len(lst) THEN m
    ELSE PyMaxFrom(IF Gt(lst[n], m) THEN lst[n] ELSE m, lst, n + 1)

PyMax(lst) == PyMaxFrom(lst[1], lst, 2)

\* the value of a scoring argument
Val(arg) == [nan |-> arg.nan, v |-> arg.v]

Str(s) == [type |-> "str", items |-> s]
List(s) == [type |-> "list", items |-> s]
Tuple(s) == [type |-> "tuple", items |-> s]
\* an argument that is no sequence, such as the integer 5
NotASeq == [type |-> "int", items |-> <<>>]

Int_(n) == [type |-> "int", nan |-> FALSE, v |-> n]
Float_(n) == [type |-> "float", nan |-> FALSE, v |-> n]
FloatNaN == [type |-> "float", nan |-> TRUE, v |-> 0]
\* an argument that is no number, such as None
NotANumber == [type |-> "NoneType", nan |-> FALSE, v |-> 0]

None == <<>>

----------------------------------------------------------------------------
(* needle *)

GapMarker == "-"

\* lines 125-132
SeqTypeOk(arg) == arg.type \in {"str", "list", "tuple"}

\* lines 134-145
NumTypeOk(arg) == arg.type \in {"int", "float"}

\* a faulty ArgsOk: the check of gap (lines 142-145) is missing
ArgsOkGapUnchecked(s1, s2, m, mm, g) ==
    /\ SeqTypeOk(s1)
    /\ SeqTypeOk(s2)
    /\ NumTypeOk(m)
    /\ NumTypeOk(mm)

\* lines 125-145: the five checks, any of which raises TypeError
ArgsOk(s1, s2, m, mm, g) ==
    /\ SeqTypeOk(s1)
    /\ SeqTypeOk(s2)
    /\ NumTypeOk(m)
    /\ NumTypeOk(mm)
    /\ NumTypeOk(g)

\* line 150: np.zeros((len(seq2)+1, len(seq1)+1))
Zeros(s1, s2) == [r \in 0..Len(s2) |-> [c \in 0..Len(s1) |-> Num(0)]]

\* a faulty Edges: the loop of lines 156-157 is missing
EdgesRowOnly(g0, s1, s2, gp) ==
    [r \in 0..Len(s2) |-> [c \in 0..Len(s1) |->
        IF r = 0 THEN Mul(gp, c) ELSE g0[r][c]]]

\* lines 154-157: row 0 and column 0 hold gap*i
Edges(g0, s1, s2, gp) ==
    [r \in 0..Len(s2) |-> [c \in 0..Len(s1) |->
        IF c = 0 THEN Mul(gp, r)
        ELSE IF r = 0 THEN Mul(gp, c)
        ELSE g0[r][c]]]

\* lines 163-166 and 183-186: the score of pairing seq1[c-1] with seq2[r-1]
\* (r, c count from 1 here, as the matrix indices do)
PairScore(s1, s2, r, c, m, mm) == IF s1[c] = s2[r] THEN m ELSE mm

\* a faulty Cell: the transition from the previous row (line 169) is missing
CellTwoWay(g, s1, s2, r, c, m, mm, gp) ==
    PyMax(<<Add(g[r - 1][c - 1], PairScore(s1, s2, r, c, m, mm)),
            Add(g[r][c - 1], gp)>>)

\* lines 167-169: the value of cell (r, c) from its three predecessors
Cell(g, s1, s2, r, c, m, mm, gp) ==
    PyMax(<<Add(g[r - 1][c - 1], PairScore(s1, s2, r, c, m, mm)),
            Add(g[r][c - 1], gp),
            Add(g[r - 1][c], gp)>>)

\* lines 161-169: the n-th iteration (from 0) of the nested loops has
\* i = n \div len(seq2) and j = n % len(seq2) and sets grid[j+1][i+1]
RECURSIVE FillFrom(_, _, _, _, _, _, _)
FillFrom(g, n, s1, s2, m, mm, gp) ==
    IF n >= Len(s1) * Len(s2) THEN g
    ELSE LET c == (n \div Len(s2)) + 1
             r == (n % Len(s2)) + 1
         IN FillFrom([g EXCEPT ![r][c] = Cell(g, s1, s2, r, c, m, mm, gp)],
                     n + 1, s1, s2, m, mm, gp)

\* lines 150-169
Grid(s1, s2, m, mm, gp) ==
    FillFrom(Edges(Zeros(s1, s2), s1, s2, gp), 0, s1, s2, m, mm, gp)

\* line 190
FromDiagonal(g, s1, s2, r, c, m, mm) ==
    Eq(g[r][c], Add(g[r - 1][c - 1], PairScore(s1, s2, r, c, m, mm)))

\* line 195: score_up is grid[i][j-1], the cell of the previous column
FromUp(g, r, c, gp) == Eq(g[r][c], Add(g[r][c - 1], gp))

\* line 199: score_left is grid[i-1][j], the cell of the previous row
FromLeft(g, r, c, gp) == Eq(g[r][c], Add(g[r - 1][c], gp))

\* a faulty Branch: the tests of lines 195 and 199 in the other order
BranchLeftFirst(g, s1, s2, r, c, m, mm, gp) ==
    IF FromDiagonal(g, s1, s2, r, c, m, mm) THEN "diagonal"
    ELSE IF FromLeft(g, r, c, gp) THEN "left"
    ELSE IF FromUp(g, r, c, gp) THEN "up"
    ELSE "none"

\* lines 190-202: which branch the if/elif/elif takes, "none" when no
\* condition holds
Branch(g, s1, s2, r, c, m, mm, gp) ==
    IF FromDiagonal(g, s1, s2, r, c, m, mm) THEN "diagonal"
    ELSE IF FromUp(g, r, c, gp) THEN "up"
    ELSE IF FromLeft(g, r, c, gp) THEN "left"
    ELSE "none"

\* lines 191-194
StepDiagonal(st, s1, s2) ==
    [i |-> st.i - 1, j |-> st.j - 1,
     align1 |-> Append(st.align1, s1[st.j]),
     align2 |-> Append(st.align2, s2[st.i])]

\* a faulty StepUp: the append of line 197 (207) is missing
StepUpNoGap(st, s1) ==
    [i |-> st.i, j |-> st.j - 1,
     align1 |-> Append(st.align1, s1[st.j]),
     align2 |-> st.align2]

\* lines 196-198 and 206-208
StepUp(st, s1) ==
    [i |-> st.i, j |-> st.j - 1,
     align1 |-> Append(st.align1, s1[st.j]),
     align2 |-> Append(st.align2, GapMarker)]

\* a faulty StepLeft: the gap marker goes to align2, the symbol to align1
StepLeftSwapped(st, s2) ==
    [i |-> st.i - 1, j |-> st.j,
     align1 |-> Append(st.align1, s2[st.i]),
     align2 |-> Append(st.align2, GapMarker)]

\* lines 200-202 and 210-212
StepLeft(st, s2) ==
    [i |-> st.i - 1, j |-> st.j,
     align1 |-> Append(st.align1, GapMarker),
     align2 |-> Append(st.align2, s2[st.i])]

\* lines 178-212: one iteration of whichever while loop is running; st is
\* unchanged by an iteration of the first loop that takes no branch
Step(st, g, s1, s2, m, mm, gp) ==
    IF st.i > 0 /\ st.j > 0
    THEN LET b == Branch(g, s1, s2, st.i, st.j, m, mm, gp)
         IN CASE b = "diagonal" -> StepDiagonal(st, s1, s2)
              [] b = "up" -> StepUp(st, s1)
              [] b = "left" -> StepLeft(st, s2)
              [] OTHER -> st
    ELSE IF st.j > 0 THEN StepUp(st, s1)
    ELSE StepLeft(st, s2)

\* lines 171-176
Start(s1, s2) == [i |-> Len(s2), j |-> Len(s1), align1 |-> <<>>, align2 |-> <<>>]

\* a faulty Returned: the reversal of lines 216-217 is missing
ReturnedNotReversed(a1, a2, t1, t2) ==
    LET t == IF t1 = "str" /\ t2 = "str" THEN "str" ELSE "list"
    IN <<[type |-> t, items |-> a1], [type |-> t, items |-> a2]>>

\* lines 216-223: reversed, and joined when both arguments are str
Returned(a1, a2, t1, t2) ==
    LET t == IF t1 = "str" /\ t2 = "str" THEN "str" ELSE "list"
    IN <<[type |-> t, items |-> Reverse(a1)], [type |-> t, items |-> Reverse(a2)]>>

\* lines 178-223 run to the end: the pair returned, or None when an
\* iteration of the first loop takes no branch (the loop then never ends)
RECURSIVE Trace(_, _, _, _, _, _, _, _, _)
Trace(st, g, s1, s2, t1, t2, m, mm, gp) ==
    IF st.i = 0 /\ st.j = 0 THEN Returned(st.align1, st.align2, t1, t2)
    ELSE LET nx == Step(st, g, s1, s2, m, mm, gp)
         IN IF nx = st THEN None
            ELSE Trace(nx, g, s1, s2, t1, t2, m, mm, gp)

\* needle(a, b, match, mismatch, gap) for arguments of valid types
Needle(a, b, m, mm, gp) ==
    Trace(Start(a.items, b.items),
          Grid(a.items, b.items, Val(m), Val(mm), Val(gp)),
          a.items, b.items, a.type, b.type, Val(m), Val(mm), Val(gp))

----------------------------------------------------------------------------
(* Inputs *)

Symbols == {"A", "C", GapMarker}

SeqArgs ==
    {Str(s) : s \in SeqsUpTo(Symbols, MaxLen)}
    \cup {List(s) : s \in SeqsUpTo(Symbols, MaxTok)}
    \cup {Tuple(s) : s \in SeqsUpTo(Symbols, MaxTok)}

ScoreInts == {-2, -1, 1}

ScoreArgs == {Int_(n) : n \in ScoreInts}

DefaultScheme ==
    [match |-> Int_(DefaultMatch), mismatch |-> Int_(DefaultMismatch),
     gap |-> Int_(DefaultGap)]

\* integer schemes, the default scheme with one argument a float, a NaN
\* or no number at all
Schemes ==
    [match : ScoreArgs, mismatch : ScoreArgs, gap : ScoreArgs]
    \cup {DefaultScheme}
    \cup {[DefaultScheme EXCEPT ![f] = x] :
            f \in {"match", "mismatch", "gap"},
            x \in {FloatNaN, Float_(1), NotANumber}}

\* the degenerate calls of the documentation, and its scenario
\* needle("GATTACA", "GCATGCU", match=1, mismatch=-1, gap=-1)
Acgt == <<"A", "C", "G", "T">>
Gattaca == <<"G", "A", "T", "T", "A", "C", "A">>
Gcatgcu == <<"G", "C", "A", "T", "G", "C", "U">>

Examples ==
    {[seq1 |-> Str(<<>>), seq2 |-> Str(Acgt), scheme |-> DefaultScheme],
     [seq1 |-> Str(Acgt), seq2 |-> Str(<<>>), scheme |-> DefaultScheme],
     [seq1 |-> Str(Gattaca), seq2 |-> Str(Gcatgcu),
      scheme |-> [match |-> Int_(1), mismatch |-> Int_(-1), gap |-> Int_(-1)]]}

NeedleCalls ==
    [seq1 : SeqArgs, seq2 : SeqArgs, scheme : Schemes]
    \cup [seq1 : {NotASeq}, seq2 : {Str(<<"A">>), NotASeq}, scheme : {DefaultScheme}]
    \cup [seq1 : {Str(<<"A">>)}, seq2 : {NotASeq}, scheme : {DefaultScheme}]
    \cup Examples

IdleNeedle ==
    /\ seq1 = None /\ seq2 = None
    /\ match = None /\ mismatch = None /\ gap = None
    /\ grid = None
    /\ i = None /\ j = None
    /\ align1 = None /\ align2 = None

IdleHamming ==
    /\ string1 = None /\ string2 = None
    /\ dist = None /\ distplus1 = None /\ distminus1 = None

IdleRevComp == string = None /\ rev_str = None /\ k = None

Init ==
    /\ pc = "call"
    /\ \E c \in NeedleCalls :
        /\ seq1 = c.seq1
        /\ seq2 = c.seq2
        /\ match = c.scheme.match
        /\ mismatch = c.scheme.mismatch
        /\ gap = c.scheme.gap
    /\ grid = None
    /\ i = None /\ j = None
    /\ align1 = None /\ align2 = None
    /\ result = None
    /\ IdleHamming
    /\ IdleRevComp

\* lines 125-145
CheckArgs ==
    /\ pc = "call"
    /\ pc' = IF ArgsOk(seq1, seq2, match, mismatch, gap) THEN "alloc" ELSE "TypeError"
    /\ UNCHANGED <<needleVars, result, hammingVars, revVars>>

\* line 150
Alloc ==
    /\ pc = "alloc"
    /\ grid' = Zeros(seq1.items, seq2.items)
    /\ pc' = "fill"
    /\ UNCHANGED <<seq1, seq2, match, mismatch, gap, i, j, align1, align2,
                   result, hammingVars, revVars>>

\* lines 154-176
Fill ==
    /\ pc = "fill"
    /\ grid' = FillFrom(Edges(grid, seq1.items, seq2.items, Val(gap)), 0,
                        seq1.items, seq2.items, Val(match), Val(mismatch), Val(gap))
    /\ LET st == Start(seq1.items, seq2.items)
       IN /\ i' = st.i
          /\ j' = st.j
          /\ align1' = st.align1
          /\ align2' = st.align2
    /\ pc' = "backtrace"
    /\ UNCHANGED <<seq1, seq2, match, mismatch, gap, result, hammingVars, revVars>>

Current == [i |-> i, j |-> j, align1 |-> align1, align2 |-> align2]

TakeStep ==
    LET nx == Step(Current, grid, seq1.items, seq2.items,
                   Val(match), Val(mismatch), Val(gap))
    IN /\ i' = nx.i
       /\ j' = nx.j
       /\ align1' = nx.align1
       /\ align2' = nx.align2
       /\ UNCHANGED <<pc, seq1, seq2, match, mismatch, gap, grid, result,
                      hammingVars, revVars>>

\* lines 178-202: an iteration of the first loop
Backtrace ==
    /\ pc = "backtrace"
    /\ i > 0 /\ j > 0
    /\ TakeStep

\* lines 205-208
FinishRow ==
    /\ pc = "backtrace"
    /\ i = 0 /\ j > 0
    /\ TakeStep

\* lines 209-212
FinishColumn ==
    /\ pc = "backtrace"
    /\ j = 0 /\ i > 0
    /\ TakeStep

\* lines 216-223
Return ==
    /\ pc = "backtrace"
    /\ i = 0 /\ j = 0
    /\ result' = Returned(align1, align2, seq1.type, seq2.type)
    /\ pc' = "done"
    /\ UNCHANGED <<needleVars, hammingVars, revVars>>

Next ==
    \/ CheckArgs
    \/ Alloc
    \/ Fill
    \/ Backtrace
    \/ FinishRow
    \/ FinishColumn
    \/ Return

Spec == Init /\ [][Next]_vars

----------------------------------------------------------------------------
(* hamming *)

\* a faulty CountFrom: the loop runs over range(min(len(a), len(b)))
RECURSIVE CountOverlapFrom(_, _, _, _)
CountOverlapFrom(n, a, b, acc) ==
    IF n >= Min(Len(a), Len(b)) THEN acc
    ELSE CountOverlapFrom(n + 1, a, b, IF a[n + 1] # b[n + 1] THEN acc + 1 ELSE acc)

\* lines 75-80, 82-87 and 89-94: the loop over range(max(len(a), len(b))),
\* from iteration n (from 0) with the counter at acc
RECURSIVE CountFrom(_, _, _, _)
CountFrom(n, a, b, acc) ==
    IF n >= Max(Len(a), Len(b)) THEN acc
    ELSE IF n < Len(a) /\ n < Len(b)
         THEN CountFrom(n + 1, a, b, IF a[n + 1] # b[n + 1] THEN acc + 1 ELSE acc)
         ELSE CountFrom(n + 1, a, b, acc + 1)

\* lines 73-74: s[1:]
DropFirst(s) == [x \in 1..(Len(s) - 1) |-> s[x + 1]]

HammingSymbols == {"A", "C"}

HammingArgs == {Str(s) : s \in SeqsUpTo(HammingSymbols, MaxHam)}

HammingCalls ==
    (HammingArgs \X HammingArgs)
    \cup {<<List(<<"A">>), Str(<<"A">>)>>, <<Str(<<"A">>), List(<<"A">>)>>,
          <<NotASeq, NotASeq>>}

HammingInit ==
    /\ pc = "call"
    /\ \E c \in HammingCalls : string1 = c[1] /\ string2 = c[2]
    /\ dist = None /\ distplus1 = None /\ distminus1 = None
    /\ result = None
    /\ IdleNeedle
    /\ IdleRevComp

\* lines 66-72
HammingCheck ==
    /\ pc = "call"
    /\ IF string1.type = "str" /\ string2.type = "str"
       THEN /\ dist' = 0 /\ distplus1' = 0 /\ distminus1' = 0
            /\ pc' = "loop1"
       ELSE /\ pc' = "TypeError"
            /\ UNCHANGED <<dist, distplus1, distminus1>>
    /\ UNCHANGED <<string1, string2, result, needleVars, revVars>>

\* lines 75-80
HammingLoop1 ==
    /\ pc = "loop1"
    /\ dist' = CountFrom(0, string1.items, string2.items, dist)
    /\ pc' = "loop2"
    /\ UNCHANGED <<string1, string2, distplus1, distminus1, result,
                   needleVars, revVars>>

\* lines 82-87
HammingLoop2 ==
    /\ pc = "loop2"
    /\ distplus1' = CountFrom(0, DropFirst(string1.items), string2.items, distplus1)
    /\ pc' = "loop3"
    /\ UNCHANGED <<string1, string2, dist, distminus1, result,
                   needleVars, revVars>>

\* lines 89-94
HammingLoop3 ==
    /\ pc = "loop3"
    /\ distminus1' = CountFrom(0, string1.items, DropFirst(string2.items), distminus1)
    /\ pc' = "return"
    /\ UNCHANGED <<string1, string2, dist, distplus1, result,
                   needleVars, revVars>>

\* line 96
HammingReturn ==
    /\ pc = "return"
    /\ result' = <<dist, distplus1, distminus1>>
    /\ pc' = "done"
    /\ UNCHANGED <<hammingVars, needleVars, revVars>>

HammingNext ==
    \/ HammingCheck
    \/ HammingLoop1
    \/ HammingLoop2
    \/ HammingLoop3
    \/ HammingReturn

SpecHamming == HammingInit /\ [][HammingNext]_vars

----------------------------------------------------------------------------
(* rev_comp *)

\* lines 23-32
rev_comp_lookup ==
    [x \in {"A", "T", "C", "G", "a", "t", "c", "g"} |->
        CASE x = "A" -> "T"
          [] x = "T" -> "A"
          [] x = "C" -> "G"
          [] x = "G" -> "C"
          [] x = "a" -> "t"
          [] x = "t" -> "a"
          [] x = "c" -> "g"
          [] x = "g" -> "c"]

\* lines 34-37: what one symbol adds to rev_str
RevCompSymbol(x) ==
    IF x \in {"A", "T", "C", "G", "a", "t", "c", "g"}
    THEN rev_comp_lookup[x]
    ELSE x

\* a faulty ReversedAt: the loop runs over string, not reversed(string)
ForwardAt(s, n) == s[n]

\* line 33: the n-th symbol (from 1) that reversed(s) yields
ReversedAt(s, n) == s[Len(s) + 1 - n]

RevCompSymbols == {"A", "T", "C", "G", "a", "t", "c", "g", "N", "-"}

RevCompCalls ==
    {Str(s) : s \in SeqsUpTo(RevCompSymbols, MaxRev)}
    \cup {List(<<"A">>), NotASeq}

RevCompInit ==
    /\ pc = "call"
    /\ string \in RevCompCalls
    /\ rev_str = None
    /\ k = None
    /\ result = None
    /\ IdleNeedle
    /\ IdleHamming

\* lines 18-32
RevCompCheck ==
    /\ pc = "call"
    /\ IF string.type = "str"
       THEN /\ rev_str' = <<>>
            /\ k' = 0
            /\ pc' = "loop"
       ELSE /\ pc' = "TypeError"
            /\ UNCHANGED <<rev_str, k>>
    /\ UNCHANGED <<string, result, needleVars, hammingVars>>

\* lines 33-37: one iteration
RevCompLoop ==
    /\ pc = "loop"
    /\ k < Len(string.items)
    /\ rev_str' = Append(rev_str, RevCompSymbol(ReversedAt(string.items, k + 1)))
    /\ k' = k + 1
    /\ UNCHANGED <<pc, string, result, needleVars, hammingVars>>

\* line 38
RevCompReturn ==
    /\ pc = "loop"
    /\ k = Len(string.items)
    /\ result' = Str(rev_str)
    /\ pc' = "done"
    /\ UNCHANGED <<string, rev_str, k, needleVars, hammingVars>>

RevCompNext ==
    \/ RevCompCheck
    \/ RevCompLoop
    \/ RevCompReturn

SpecRevComp == RevCompInit /\ [][RevCompNext]_vars

----------------------------------------------------------------------------
(* Properties of needle *)

\* s with its gap markers removed
Degap(s) == SelectSeq(s, LAMBDA x : x # GapMarker)

\* n gap markers
Gaps(n) == [x \in 1..n |-> GapMarker]

HasGapMarker(s) == \E x \in 1..Len(s) : s[x] = GapMarker

Returns == pc = "done" /\ seq1 # None

NoGapMarkerInArgs == ~HasGapMarker(seq1.items) /\ ~HasGapMarker(seq2.items)

IntScores == ~match.nan /\ ~mismatch.nan /\ ~gap.nan

\* C1 as stated: whatever the arguments, the first returned sequence without
\* its gap markers is seq1 and the second without its gap markers is seq2.
C1_DegapAnyInput ==
    Returns =>
        /\ Degap(result[1].items) = seq1.items
        /\ Degap(result[2].items) = seq2.items

\* C1, amended: when neither argument holds the symbol '-', the first
\* returned sequence without its gap markers is seq1 and the second without
\* its gap markers is seq2.
C1_DegapReconstructs ==
    (Returns /\ NoGapMarkerInArgs) =>
        /\ Degap(result[1].items) = seq1.items
        /\ Degap(result[2].items) = seq2.items

\* needle returned an alignment of two different non-empty gap-free
\* arguments, with a gap marker in each returned sequence
C1_Witness ==
    /\ Returns /\ NoGapMarkerInArgs
    /\ Len(seq1.items) > 0 /\ Len(seq2.items) > 0
    /\ seq1.items # seq2.items
    /\ HasGapMarker(result[1].items) /\ HasGapMarker(result[2].items)

\* the score of one column as C2 reads it off the returned pair
ColumnScore(x, y) ==
    IF x = y THEN Val(match)
    ELSE IF x = GapMarker \/ y = GapMarker THEN Val(gap)
    ELSE Val(mismatch)

RECURSIVE SumColumns(_, _, _, _)
SumColumns(a, b, n, acc) ==
    IF n > Len(a) THEN acc
    ELSE SumColumns(a, b, n + 1, Add(acc, ColumnScore(a[n], b[n])))

Recomputed == SumColumns(result[1].items, result[2].items, 1, Num(0))

\* the scores of all global alignments of the first p symbols of seq1 with
\* the first q symbols of seq2
RECURSIVE AlignmentScores(_, _)
AlignmentScores(p, q) ==
    IF p = 0 /\ q = 0 THEN {Num(0)}
    ELSE (IF p > 0 /\ q > 0
          THEN {Add(s, IF seq1.items[p] = seq2.items[q] THEN Val(match)
                       ELSE Val(mismatch)) : s \in AlignmentScores(p - 1, q - 1)}
          ELSE {})
         \cup (IF p > 0 THEN {Add(s, Val(gap)) : s \in AlignmentScores(p - 1, q)}
               ELSE {})
         \cup (IF q > 0 THEN {Add(s, Val(gap)) : s \in AlignmentScores(p, q - 1)}
               ELSE {})

IsMaximum(x, S) ==
    /\ \E s \in S : Eq(s, x)
    /\ \A s \in S : ~Gt(s, x)

BottomRight == grid[Len(seq2.items)][Len(seq1.items)]

Optimal ==
    /\ Eq(Recomputed, BottomRight)
    /\ IsMaximum(BottomRight, AlignmentScores(Len(seq1.items), Len(seq2.items)))

\* C2 as stated: for all arguments and scores, the score summed over the
\* columns of the returned pair equals the bottom-right cell, which is the
\* greatest score of a global alignment.
C2_OptimalAnyInput == Returns => Optimal

\* C2, amended: when neither argument holds the symbol '-' and no score is
\* NaN, the score summed over the columns of the returned pair equals the
\* bottom-right cell, which is the greatest score of a global alignment.
C2_Optimal == (Returns /\ NoGapMarkerInArgs /\ IntScores) => Optimal

\* needle returned an alignment with a gap, a match and a mismatch column
C2_Witness ==
    /\ Returns /\ NoGapMarkerInArgs /\ IntScores
    /\ HasGapMarker(result[1].items)
    /\ \E x \in 1..Len(result[1].items) : result[1].items[x] = result[2].items[x]
    /\ \E x \in 1..Len(result[1].items) :
        /\ result[1].items[x] # result[2].items[x]
        /\ result[1].items[x] # GapMarker
        /\ result[2].items[x] # GapMarker

\* needle(seq2, seq1) under the same scoring
Swapped == Needle(seq2, seq1, match, mismatch, gap)

\* C3 as stated: needle(seq2, seq1) returns the pair needle(seq1, seq2)
\* returned, in the other order.
C3_Symmetric == Returns => Swapped = <<result[2], result[1]>>

\* some step of the first loop, from st on, finds that the diagonal
\* transition does not reproduce the cell and both gap transitions do
RECURSIVE GapTieFrom(_)
GapTieFrom(st) ==
    /\ st.i > 0 /\ st.j > 0
    /\ LET s1 == seq1.items
           s2 == seq2.items
       IN \/ /\ ~FromDiagonal(grid, s1, s2, st.i, st.j, Val(match), Val(mismatch))
             /\ FromUp(grid, st.i, st.j, Val(gap))
             /\ FromLeft(grid, st.i, st.j, Val(gap))
          \/ LET nx == Step(st, grid, s1, s2, Val(match), Val(mismatch), Val(gap))
             IN nx # st /\ GapTieFrom(nx)

GapTie == GapTieFrom(Start(seq1.items, seq2.items))

\* C3, amended: needle(seq2, seq1) returns the pair needle(seq1, seq2)
\* returned, in the other order, provided no step of the backtrace of
\* needle(seq1, seq2) had both gap transitions, and not the diagonal one,
\* reproduce the current cell.
C3_SymmetricWithoutGapTie == (Returns /\ ~GapTie) => Swapped = <<result[2], result[1]>>

\* needle returned an alignment that has a gap, found without a gap tie
C3_Witness ==
    /\ Returns /\ ~GapTie
    /\ Len(seq1.items) > 0 /\ Len(seq2.items) > 0
    /\ seq1.items # seq2.items
    /\ HasGapMarker(result[1].items)

\* C4: align1 and align2 have the same length at every step of the
\* backtrace, and so have the two sequences returned.
C4_EqualLength ==
    /\ pc = "backtrace" => Len(align1) = Len(align2)
    /\ Returns => Len(result[1].items) = Len(result[2].items)

\* needle returned an alignment of arguments of different lengths
C4_Witness ==
    /\ Returns
    /\ Len(seq1.items) > 0 /\ Len(seq2.items) > Len(seq1.items)
    /\ Len(result[1].items) > Len(seq2.items)

\* C5: with seq1 empty the result is len(seq2) gap markers and seq2, with
\* seq2 empty it is seq1 and len(seq1) gap markers; needle("", "ACGT") is
\* ("----", "ACGT"), needle("ACGT", "") is ("ACGT", "----") and
\* needle("", "") is ("", "").
C5_Degenerate ==
    Returns =>
        /\ seq1.items = <<>> =>
            /\ result[1].items = Gaps(Len(seq2.items))
            /\ result[2].items = seq2.items
        /\ seq2.items = <<>> =>
            /\ result[1].items = seq1.items
            /\ result[2].items = Gaps(Len(seq1.items))
        /\ (seq1 = Str(<<>>) /\ seq2 = Str(Acgt)) =>
            result = <<Str(<<"-", "-", "-", "-">>), Str(Acgt)>>
        /\ (seq1 = Str(Acgt) /\ seq2 = Str(<<>>)) =>
            result = <<Str(Acgt), Str(<<"-", "-", "-", "-">>)>>
        /\ (seq1 = Str(<<>>) /\ seq2 = Str(<<>>)) =>
            result = <<Str(<<>>), Str(<<>>)>>

\* needle("", "ACGT") returned
C5_Witness == Returns /\ seq1 = Str(<<>>) /\ seq2 = Str(Acgt)

\* the types the documentation of needle allows
ValidTypes ==
    /\ seq1.type \in {"str", "list", "tuple"}
    /\ seq2.type \in {"str", "list", "tuple"}
    /\ match.type \in {"int", "float"}
    /\ mismatch.type \in {"int", "float"}
    /\ gap.type \in {"int", "float"}

\* C6: needle raises TypeError exactly when an argument has a wrong type,
\* before the matrix is allocated, and then returns nothing.
C6_TypeError ==
    (seq1 # None /\ pc # "call") =>
        /\ pc = "TypeError" <=> ~ValidTypes
        /\ pc = "TypeError" => grid = None /\ align1 = None /\ result = None

\* needle raised TypeError for a gap that is no number, the other
\* arguments being valid
C6_Witness ==
    /\ seq1 # None /\ pc = "TypeError"
    /\ seq1.type = "str" /\ seq2.type = "str"
    /\ match.type = "int" /\ mismatch.type = "int"
    /\ gap.type = "NoneType"

\* C9: at every iteration of the first backtrace loop the current cell is
\* reproduced by one of the three transitions, so that a branch is taken.
C9_BranchTaken ==
    (pc = "backtrace" /\ i > 0 /\ j > 0) =>
        LET cur == grid[i][j]
            pair == IF seq1.items[j] = seq2.items[i] THEN Val(match) ELSE Val(mismatch)
        IN \/ Eq(cur, Add(grid[i - 1][j - 1], pair))
           \/ Eq(cur, Add(grid[i][j - 1], Val(gap)))
           \/ Eq(cur, Add(grid[i - 1][j], Val(gap)))

\* C10: a step of the first backtrace loop is the diagonal one if the
\* diagonal transition reproduces the current cell, otherwise the one to the
\* previous column (a seq1 symbol over a gap marker) if that transition
\* does, otherwise the one to the previous row (a gap marker over a seq2
\* symbol) if that one does.
C10_TieBreak ==
    [][(pc = "backtrace" /\ i > 0 /\ j > 0) =>
        LET cur == grid[i][j]
            pair == IF seq1.items[j] = seq2.items[i] THEN Val(match) ELSE Val(mismatch)
            d == Eq(cur, Add(grid[i - 1][j - 1], pair))
            c == Eq(cur, Add(grid[i][j - 1], Val(gap)))
            r == Eq(cur, Add(grid[i - 1][j], Val(gap)))
        IN /\ d =>
                /\ i' = i - 1 /\ j' = j - 1
                /\ align1' = Append(align1, seq1.items[j])
                /\ align2' = Append(align2, seq2.items[i])
           /\ (~d /\ c) =>
                /\ i' = i /\ j' = j - 1
                /\ align1' = Append(align1, seq1.items[j])
                /\ align2' = Append(align2, GapMarker)
           /\ (~d /\ ~c /\ r) =>
                /\ i' = i - 1 /\ j' = j
                /\ align1' = Append(align1, GapMarker)
                /\ align2' = Append(align2, seq2.items[i])]_vars

\* the backtrace has taken a step and is at a cell that all three
\* transitions reproduce
C10_Witness ==
    /\ pc = "backtrace" /\ i > 0 /\ j > 0
    /\ Len(align1) > 0
    /\ LET pair == IF seq1.items[j] = seq2.items[i] THEN Val(match) ELSE Val(mismatch)
       IN /\ Eq(grid[i][j], Add(grid[i - 1][j - 1], pair))
          /\ Eq(grid[i][j], Add(grid[i][j - 1], Val(gap)))
          /\ Eq(grid[i][j], Add(grid[i - 1][j], Val(gap)))

----------------------------------------------------------------------------
(* Properties of hamming and rev_comp *)

\* the number of positions below min(len(a), len(b)) at which a and b
\* differ, plus the difference of their lengths
Distance(a, b) ==
    Cardinality({x \in 1..Min(Len(a), Len(b)) : a[x] # b[x]})
    + (Max(Len(a), Len(b)) - Min(Len(a), Len(b)))

\* s without its first symbol
Shifted(s) == SubSeq(s, 2, Len(s))

HammingReturns == pc = "done" /\ string1 # None

\* C7: hamming returns the distances of (string1, string2), of (string1
\* without its first symbol, string2) and of (string1, string2 without its
\* first symbol); the first is 0 for identical sequences.
C7_Hamming ==
    HammingReturns =>
        /\ result = <<Distance(string1.items, string2.items),
                      Distance(Shifted(string1.items), string2.items),
                      Distance(string1.items, Shifted(string2.items))>>
        /\ string1.items = string2.items => result[1] = 0

\* hamming returned for sequences of different lengths that differ by a
\* shift of one position: the shifted distance is 0, the others are not
C7_Witness ==
    /\ HammingReturns
    /\ Len(string1.items) = Len(string2.items) + 1
    /\ Len(string2.items) >= 2
    /\ result[1] > 1 /\ result[2] = 0 /\ result[3] > 1

\* the complement table of C8
Complement(x) ==
    CASE x = "A" -> "T" [] x = "T" -> "A"
      [] x = "C" -> "G" [] x = "G" -> "C"
      [] x = "a" -> "t" [] x = "t" -> "a"
      [] x = "c" -> "g" [] x = "g" -> "c"
      [] OTHER -> x

RevCompReturns == pc = "done" /\ string # None

\* C8: rev_comp(s) is as long as s, and its symbol at position x (from 0)
\* is the complement of the symbol of s at position len(s)-1-x, or that
\* symbol itself when it is none of ACGTacgt.
C8_RevComp ==
    RevCompReturns =>
        /\ result.type = "str"
        /\ Len(result.items) = Len(string.items)
        /\ \A x \in 0..(Len(string.items) - 1) :
            result.items[x + 1] = Complement(string.items[Len(string.items) - x])

\* rev_comp returned for a two-symbol string of a lower-case nucleotide and
\* a symbol that is no nucleotide
C8_Witness ==
    /\ RevCompReturns
    /\ string.items = <<"N", "g">>
    /\ result.items = <<"c", "N">>

====
